---------------------------- MODULE Spec2Model ----------------------------
(***************************************************************************)
(* Heartbeat monitor (src/main.py, class HeartbeatMonitor).                *)
(*                                                                         *)
(* Time is counted in ticks of 1/TicksPerSec second since an arbitrary     *)
(* epoch, so that sub-second instants (fractional seconds are accepted by  *)
(* parse_timestamp) and the truncation done by strftime are both visible.  *)
(* tolerance is the fraction cfg.tolerance / TolDen.                       *)
(***************************************************************************)
EXTENDS Integers, Sequences, FiniteSets, TLC

VARIABLES
    cfg,              \* the fields set by HeartbeatMonitor.__init__
    now,              \* the wall clock, datetime.now(timezone.utc), in ticks
    ticks,            \* how often the clock has advanced since monitor_heartbeats was called
    events,           \* the argument of monitor_heartbeats
    pc,               \* position inside monitor_heartbeats
    services_events,  \* the dict returned by sort_events_by_service, in insertion order
    svc_i,            \* how many services the for loop of monitor_heartbeats has finished
    det,              \* the frame of the running detect_missed_heartbeats call
    all_alerts,       \* all_alerts of monitor_heartbeats
    result            \* the list monitor_heartbeats returned

vars == <<cfg, now, ticks, events, pc, services_events, svc_i, det, all_alerts, result>>

---------------------------------------------------------------------------
(* Bounds of the model *)

TicksPerSec == 2
TolDen == 2
MaxTime == 8
MaxLen == 3
MaxEvents == 2
MaxNow == 14
MaxMisses == 2
MaxTicks == 1

(* Program constants *)

MaxServiceLen == 100
FutureHours == 24
DefaultFutureLimit == 300
MaxIntervalSeconds == 3600
MaxAllowedMisses == 10

Intervals == {1}
TolNums == 0..TolDen
GapLimits == {1, 3}

(* F(e), the value of e being computed once and then named. *)
Bind(F(_), e) == CHOOSE r \in {F(v) : v \in {e}} : TRUE

Abs(x) == IF x < 0 THEN -x ELSE x

---------------------------------------------------------------------------
(* Raw input records.  Every item of the input list is written as a record *)
(* of one shape: isdict says whether the item is a dict at all, keys which  *)
(* of the two keys it has.  A service value is text (str = TRUE) with its   *)
(* stripped text `core`, the length `len` of the stripped text and `pad`    *)
(* surrounding blanks, or not text.  A timestamp value is text in one of    *)
(* the accepted forms, denoting wall-clock `wall` at UTC offset `off`, or   *)
(* text that does not parse, or not text.                                   *)

Text(c, l, p) == [str |-> TRUE, core |-> c, len |-> l, pad |-> p]
NotText == [str |-> FALSE, core |-> "", len |-> 0, pad |-> 0]

Stamp(f, w, o) == [form |-> f, wall |-> w, off |-> o]
StampZ(t) == Stamp("Z", t, 0)
StampNaive(t) == Stamp("naive", t, 0)
StampOffset(t, off) == Stamp("offset", t + off, off)
StampInvalid == Stamp("invalid", 0, 0)
StampNotText == Stamp("nonstr", 0, 0)

Dict(s, ts) ==
    [isdict |-> TRUE, keys |-> {"service", "timestamp"},
     service |-> s, timestamp |-> ts]

Event(name, t) == Dict(Text(name, 1, 0), StampZ(t))

NoneTime == [ok |-> FALSE, utc |-> 0]

(* parse_timestamp: the UTC instant a timestamp value denotes, or None. *)
parse_timestamp(ts) ==
    CASE ts.form = "Z"      -> [ok |-> TRUE, utc |-> ts.wall]
      [] ts.form = "offset" -> [ok |-> TRUE, utc |-> ts.wall - ts.off]
      [] ts.form = "naive"  -> [ok |-> TRUE, utc |-> ts.wall]
      [] OTHER              -> NoneTime

Instant(event) == parse_timestamp(event.timestamp).utc

validate_eventFutureLimit(event, n) ==
    /\ event.isdict
    /\ "service" \in event.keys /\ "timestamp" \in event.keys
    /\ event.service.str /\ event.service.len > 0
    /\ event.service.len <= MaxServiceLen
    /\ parse_timestamp(event.timestamp).ok
    /\ ~ (Instant(event) > n + DefaultFutureLimit * TicksPerSec)

(* validate_event, with the clock value n that line 88 reads. *)
validate_event(event, n) ==
    /\ event.isdict
    /\ "service" \in event.keys /\ "timestamp" \in event.keys
    /\ event.service.str /\ event.service.len > 0
    /\ event.service.len <= MaxServiceLen
    /\ parse_timestamp(event.timestamp).ok
    /\ ~ (Instant(event) > n + FutureHours * 3600 * TicksPerSec)


---------------------------------------------------------------------------
(* sort_events_by_service *)

RECURSIVE IndexOfName(_, _, _)
IndexOfName(services, name, i) ==
    IF i > Len(services) THEN 0
    ELSE IF services[i].name = name THEN i
    ELSE IndexOfName(services, name, i + 1)

(* services[service_name].append(event) on a defaultdict(list): a new key *)
(* goes to the end of the dict's iteration order.                         *)
AppendToService(services, name, event) ==
    LET i == IndexOfName(services, name, 1) IN
    IF i = 0 THEN Append(services, [name |-> name, evs |-> <<event>>])
    ELSE [services EXCEPT ![i].evs = Append(@, event)]

(* The first loop (lines 99-106): valid events are appended under the *)
(* stripped service name, the others are skipped.                      *)
RECURSIVE GroupValid(_, _, _, _)
GroupValid(evs, i, n, services) ==
    IF i > Len(evs) THEN services
    ELSE IF ~ validate_event(evs[i], n) THEN GroupValid(evs, i + 1, n, services)
    ELSE Bind(LAMBDA appended : GroupValid(evs, i + 1, n, appended),
              AppendToService(services, evs[i].service.core, evs[i]))

(* list.sort(key = parsed timestamp) is stable: an element goes after *)
(* every element whose key is not greater.                             *)
RECURSIVE InsertByTimeBefore(_, _)
InsertByTimeBefore(sorted, e) ==
    IF sorted = <<>> THEN <<e>>
    ELSE IF Instant(sorted[Len(sorted)]) < Instant(e) THEN Append(sorted, e)
    ELSE Append(InsertByTimeBefore(SubSeq(sorted, 1, Len(sorted) - 1), e),
                sorted[Len(sorted)])

RECURSIVE InsertByTime(_, _)
InsertByTime(sorted, e) ==
    IF sorted = <<>> THEN <<e>>
    ELSE IF Instant(sorted[Len(sorted)]) <= Instant(e) THEN Append(sorted, e)
    ELSE Append(InsertByTime(SubSeq(sorted, 1, Len(sorted) - 1), e),
                sorted[Len(sorted)])

RECURSIVE SortByTime(_, _, _)
SortByTime(evs, i, sorted) ==
    IF i > Len(evs) THEN sorted
    ELSE Bind(LAMBDA inserted : SortByTime(evs, i + 1, inserted),
              InsertByTime(sorted, evs[i]))

(* Lines 115-128: the first event of each distinct instant is kept. *)
RECURSIVE Unique(_, _, _, _)
Unique(evs, i, seen_timestamps, unique_events) ==
    IF i > Len(evs) THEN unique_events
    ELSE IF Instant(evs[i]) \in seen_timestamps
         THEN Unique(evs, i + 1, seen_timestamps, unique_events)
    ELSE Unique(evs, i + 1, seen_timestamps \cup {Instant(evs[i])},
                Append(unique_events, evs[i]))

SortAndDeduplicateFromSecond(evs) ==
    Bind(LAMBDA sorted : Unique(sorted, 2, {}, <<>>), SortByTime(evs, 1, <<>>))

SortAndDeduplicate(evs) ==
    Bind(LAMBDA sorted : Unique(sorted, 1, {}, <<>>), SortByTime(evs, 1, <<>>))

sort_events_by_service(evs, n) ==
    Bind(LAMBDA grouped :
            [i \in 1..Len(grouped) |->
                [name |-> grouped[i].name,
                 evs |-> SortAndDeduplicate(grouped[i].evs)]],
         GroupValid(evs, 1, n, <<>>))

---------------------------------------------------------------------------
(* detect_missed_heartbeats, one loop step at a time.  A frame holds the  *)
(* locals of the call; event_index is 0-based as in the source.           *)

IntervalTicks(c) == c.interval_seconds * TicksPerSec

(* abs(time_diff) <= tolerance_seconds and time_diff > tolerance_seconds, *)
(* with tolerance_seconds = interval_seconds * tolerance (line 36).       *)
WithinToleranceStrict(diff, c) == Abs(diff) * TolDen < IntervalTicks(c) * c.tolerance
WithinTolerance(diff, c) == Abs(diff) * TolDen <= IntervalTicks(c) * c.tolerance
BeyondTolerance(diff, c) == diff * TolDen > IntervalTicks(c) * c.tolerance

EventTime(service_events, index) == Instant(service_events[index + 1])

IdleFrame ==
    [pc |-> "idle", alerts |-> <<>>, consecutive_misses |-> 0,
     current_expected |-> 0, event_index |-> 0, found_heartbeat |-> FALSE,
     time_since_last |-> 0]

(* Lines 136-144. *)
DetectEntry(service_events) ==
    IF service_events = <<>>
    THEN [IdleFrame EXCEPT !.pc = "return"]
    ELSE [IdleFrame EXCEPT !.pc = "outer",
                           !.current_expected = EventTime(service_events, 0),
                           !.event_index = 1]

OuterStepBackwards(d, service_events, c) ==
    [d EXCEPT !.found_heartbeat = FALSE,
              !.current_expected = @ - IntervalTicks(c),
              !.pc = "inner"]

OuterStepResync(d, service_events, c) ==
    IF ~ (d.event_index <= Len(service_events)) THEN [d EXCEPT !.pc = "return"]
    ELSE
    LET next_expected == d.current_expected + IntervalTicks(c)
        max_gap == IntervalTicks(c) * c.gap_limit
    IN  IF /\ d.event_index < Len(service_events)
           /\ EventTime(service_events, d.event_index) - d.current_expected > max_gap
        THEN [d EXCEPT !.current_expected = EventTime(service_events, d.event_index),
                       !.consecutive_misses = 0,
                       !.event_index = @ + 1]
        ELSE [d EXCEPT !.found_heartbeat = FALSE,
                       !.current_expected = next_expected,
                       !.pc = "inner"]

(* Lines 146-160: the head of the outer loop, the large-gap check and the *)
(* move to the next expected slot.                                        *)
OuterStep(d, service_events, c) ==
    IF ~ (d.event_index <= Len(service_events)) THEN [d EXCEPT !.pc = "return"]
    ELSE
    LET next_expected == d.current_expected + IntervalTicks(c)
        gap == next_expected - d.current_expected
        max_gap == IntervalTicks(c) * c.gap_limit
    IN  IF gap > max_gap /\ d.event_index < Len(service_events)
        THEN [d EXCEPT !.current_expected = EventTime(service_events, d.event_index),
                       !.consecutive_misses = 0,
                       !.event_index = @ + 1]
        ELSE [d EXCEPT !.found_heartbeat = FALSE,
                       !.current_expected = next_expected,
                       !.pc = "inner"]

InnerStepStuck(d, service_events, c) ==
    IF ~ (d.event_index < Len(service_events)) THEN [d EXCEPT !.pc = "count"]
    ELSE
    LET event_time == EventTime(service_events, d.event_index)
        time_diff == event_time - d.current_expected
    IN  IF WithinTolerance(time_diff, c)
        THEN [d EXCEPT !.found_heartbeat = TRUE,
                       !.consecutive_misses = 0,
                       !.event_index = @ + 1,
                       !.current_expected = event_time,
                       !.pc = "count"]
        ELSE IF BeyondTolerance(time_diff, c)
        THEN [d EXCEPT !.pc = "count"]
        ELSE d

(* Lines 162-175: one iteration of the inner scan. *)
InnerStep(d, service_events, c) ==
    IF ~ (d.event_index < Len(service_events)) THEN [d EXCEPT !.pc = "count"]
    ELSE
    LET event_time == EventTime(service_events, d.event_index)
        time_diff == event_time - d.current_expected
    IN  IF WithinTolerance(time_diff, c)
        THEN [d EXCEPT !.found_heartbeat = TRUE,
                       !.consecutive_misses = 0,
                       !.event_index = @ + 1,
                       !.current_expected = event_time,
                       !.pc = "count"]
        ELSE IF BeyondTolerance(time_diff, c)
        THEN [d EXCEPT !.pc = "count"]
        ELSE [d EXCEPT !.event_index = @ + 1]

CountMissHalfReset(d, c) ==
    IF d.consecutive_misses + 1 >= c.allowed_misses
    THEN [d EXCEPT !.alerts = Append(@, d.current_expected),
                   !.consecutive_misses = c.allowed_misses - 1]
    ELSE [d EXCEPT !.consecutive_misses = @ + 1]

CountMissSilent(d, c) ==
    IF d.consecutive_misses + 1 >= c.allowed_misses
    THEN [d EXCEPT !.consecutive_misses = 0]
    ELSE [d EXCEPT !.consecutive_misses = @ + 1]

CountMissLate(d, c) ==
    IF d.consecutive_misses + 1 > c.allowed_misses
    THEN [d EXCEPT !.alerts = Append(@, d.current_expected),
                   !.consecutive_misses = 0]
    ELSE [d EXCEPT !.consecutive_misses = @ + 1]

CountMissNoReset(d, c) ==
    IF d.consecutive_misses + 1 >= c.allowed_misses
    THEN [d EXCEPT !.alerts = Append(@, d.current_expected),
                   !.consecutive_misses = @ + 1]
    ELSE [d EXCEPT !.consecutive_misses = @ + 1]

(* consecutive_misses += 1 and the threshold test that follows it *)
(* (lines 178-182 and 194-197).                                    *)
CountMiss(d, c) ==
    IF d.consecutive_misses + 1 >= c.allowed_misses
    THEN [d EXCEPT !.alerts = Append(@, d.current_expected),
                   !.consecutive_misses = 0]
    ELSE [d EXCEPT !.consecutive_misses = @ + 1]

(* Lines 177-184: the miss count of the slot, then the test whether the *)
(* events are exhausted.                                                *)
CountStep(d, service_events, c) ==
    LET counted == IF d.found_heartbeat THEN d ELSE CountMiss(d, c) IN
    [counted EXCEPT !.pc = IF counted.event_index >= Len(service_events)
                           THEN "stale" ELSE "outer"]

StaleStepInclusive(d, service_events, c, n) ==
    LET last_event_time == EventTime(service_events, Len(service_events) - 1)
        since == n - last_event_time
    IN  [d EXCEPT !.time_since_last = since,
                  !.pc = IF since <= IntervalTicks(c) * c.gap_limit
                         THEN "trail" ELSE "return"]

(* Lines 185-188 and the break of line 200: the clock is read (n) and the *)
(* service is projected only if its last event is recent.                 *)
StaleStep(d, service_events, c, n) ==
    LET last_event_time == EventTime(service_events, Len(service_events) - 1)
        since == n - last_event_time
    IN  [d EXCEPT !.time_since_last = since,
                  !.pc = IF since < IntervalTicks(c) * c.gap_limit
                         THEN "trail" ELSE "return"]

TrailStepRecentOnly(d, c, n) ==
    IF ~ (d.consecutive_misses < c.allowed_misses) THEN [d EXCEPT !.pc = "return"]
    ELSE
    LET projected == d.current_expected + IntervalTicks(c)
        moved == [d EXCEPT !.current_expected = projected]
    IN  IF BeyondTolerance(n - projected, c) /\ n - projected < IntervalTicks(c)
        THEN CountMiss(moved, c)
        ELSE [moved EXCEPT !.pc = "return"]

TrailStepAtDeadline(d, c, n) ==
    IF ~ (d.consecutive_misses < c.allowed_misses) THEN [d EXCEPT !.pc = "return"]
    ELSE
    LET projected == d.current_expected + IntervalTicks(c)
        moved == [d EXCEPT !.current_expected = projected]
    IN  IF (n - projected) * TolDen >= IntervalTicks(c) * c.tolerance
        THEN CountMiss(moved, c)
        ELSE [moved EXCEPT !.pc = "return"]

(* Lines 189-199: one iteration of the projection loop; the clock is read *)
(* again (n) in every iteration.                                          *)
TrailStep(d, c, n) ==
    IF ~ (d.consecutive_misses < c.allowed_misses) THEN [d EXCEPT !.pc = "return"]
    ELSE
    LET projected == d.current_expected + IntervalTicks(c)
        moved == [d EXCEPT !.current_expected = projected]
    IN  IF BeyondTolerance(n - projected, c)
        THEN CountMiss(moved, c)
        ELSE [moved EXCEPT !.pc = "return"]

(* The next step of a frame, whichever it is. *)
DetectStep(d, service_events, c, n) ==
    CASE d.pc = "outer" -> OuterStep(d, service_events, c)
      [] d.pc = "inner" -> InnerStep(d, service_events, c)
      [] d.pc = "count" -> CountStep(d, service_events, c)
      [] d.pc = "stale" -> StaleStep(d, service_events, c, n)
      [] d.pc = "trail" -> TrailStep(d, c, n)
      [] OTHER          -> d

(* A whole call during which every clock read returns n. *)
RECURSIVE RunFrame(_, _, _, _)
RunFrame(d, service_events, c, n) ==
    IF d.pc = "return" THEN d.alerts
    ELSE RunFrame(DetectStep(d, service_events, c, n), service_events, c, n)

detect_missed_heartbeats(service_events, c, n) ==
    RunFrame(DetectEntry(service_events), service_events, c, n)


---------------------------------------------------------------------------
(* monitor_heartbeats *)

(* alert_time.strftime("%Y-%m-%dT%H:%M:%SZ") drops the fraction of a       *)
(* second; the text is written here as the whole second it names, and      *)
(* texts of this form compare as the seconds they name.                    *)
FormatAlertTime(t) == t \div TicksPerSec

(* Lines 215-219. *)
RECURSIVE AlertRecords(_, _, _)
AlertRecords(name, alert_times, i) ==
    IF i > Len(alert_times) THEN <<>>
    ELSE <<[service |-> name, alert_at |-> FormatAlertTime(alert_times[i])]>>
         \o AlertRecords(name, alert_times, i + 1)

(* all_alerts.sort(key = alert_at), line 221: stable. *)
RECURSIVE InsertByAlertAt(_, _)
InsertByAlertAt(sorted, a) ==
    IF sorted = <<>> THEN <<a>>
    ELSE IF sorted[Len(sorted)].alert_at <= a.alert_at THEN Append(sorted, a)
    ELSE Append(InsertByAlertAt(SubSeq(sorted, 1, Len(sorted) - 1), a),
                sorted[Len(sorted)])

RECURSIVE SortByAlertAt(_, _, _)
SortByAlertAt(alerts, i, sorted) ==
    IF i > Len(alerts) THEN sorted
    ELSE Bind(LAMBDA inserted : SortByAlertAt(alerts, i + 1, inserted),
              InsertByAlertAt(sorted, alerts[i]))

SortAlertsMissing(alerts) == alerts

SortAlerts(alerts) == SortByAlertAt(alerts, 1, <<>>)

(* The for loop of lines 212-219 from service i on, every clock read *)
(* returning n.                                                       *)
RECURSIVE CollectAlerts(_, _, _, _)
CollectAlerts(services, i, c, n) ==
    IF i > Len(services) THEN <<>>
    ELSE AlertRecords(services[i].name,
                      detect_missed_heartbeats(services[i].evs, c, n), 1)
         \o CollectAlerts(services, i + 1, c, n)

(* A whole call of monitor_heartbeats during which every clock read *)
(* returns n.                                                        *)
monitor_heartbeats(evs, c, n) ==
    SortAlerts(CollectAlerts(sort_events_by_service(evs, n), 1, c, n))

---------------------------------------------------------------------------
(* The inputs *)

Configs ==
    [interval_seconds : Intervals, allowed_misses : 1..MaxMisses,
     tolerance : TolNums, future_limit : {DefaultFutureLimit},
     gap_limit : GapLimits]

SeqsUpTo(S, n) == UNION {[1..k -> S] : k \in 0..n}

(* Chronological duplicate-free timelines of one service. *)
Timelines ==
    {s \in SeqsUpTo(0..MaxTime, MaxLen) :
        /\ Len(s) >= 1 /\ s[1] <= 1
        /\ \A i \in 1..(Len(s) - 1) : s[i] < s[i + 1]}

TimelineEvents(s) == [i \in 1..Len(s) |-> Event("a", s[i])]

FutureLimitTicks == FutureHours * 3600 * TicksPerSec

ValidRaw ==
    {Event("a", 0), Event("b", 0), Event("b", 1),
     Event("a", TicksPerSec), Event("b", TicksPerSec),
     Dict(Text("a", 1, 1), StampOffset(0, TicksPerSec)),
     Dict(Text("c", 1, 0), StampNaive(FutureLimitTicks + MaxNow \div 2))}

MalformedRaw ==
    {[isdict |-> FALSE, keys |-> {}, service |-> NotText, timestamp |-> StampNotText],
     [isdict |-> TRUE, keys |-> {"timestamp"}, service |-> NotText, timestamp |-> StampZ(0)],
     [isdict |-> TRUE, keys |-> {"service"}, service |-> Text("a", 1, 0), timestamp |-> StampNotText],
     Dict(NotText, StampZ(0)),
     Dict(Text("", 0, 1), StampZ(0)),
     Dict(Text("long", MaxServiceLen + 1, 0), StampZ(0)),
     Dict(Text("a", 1, 0), StampInvalid),
     Dict(Text("a", 1, 0), StampNotText)}

(* Well-formed records of several services in any order, and a malformed *)
(* record alone or next to one well-formed record.                       *)
MixedInputs ==
    SeqsUpTo(ValidRaw, MaxEvents)
    \cup {<<m>> : m \in MalformedRaw}
    \cup {<<m, v>> : m \in MalformedRaw, v \in ValidRaw}
    \cup {<<v, m>> : v \in ValidRaw, m \in MalformedRaw}

Inputs == {TimelineEvents(s) : s \in Timelines} \cup MixedInputs

---------------------------------------------------------------------------
(* The state machine: a constructed monitor, on which monitor_heartbeats *)
(* is called once at some time, while the clock runs.                   *)

Init ==
    /\ cfg \in Configs
    /\ now = 0
    /\ ticks = 0
    /\ events = <<>>
    /\ pc = "idle"
    /\ services_events = <<>>
    /\ svc_i = 0
    /\ det = IdleFrame
    /\ all_alerts = <<>>
    /\ result = <<>>

(* Time passes before the call. *)
Wait ==
    /\ pc = "idle" /\ now < MaxNow
    /\ now' = now + 1
    /\ UNCHANGED <<cfg, ticks, events, pc, services_events, svc_i, det, all_alerts, result>>

(* monitor_heartbeats(e) is called (line 204); e is a list. *)
Call(e) ==
    /\ pc = "idle"
    /\ events' = e
    /\ pc' = "call"
    /\ UNCHANGED <<cfg, now, ticks, services_events, svc_i, det, all_alerts, result>>

CallAny == \E e \in Inputs : Call(e)

CallTimeline == \E s \in Timelines : Call(TimelineEvents(s))

CurrentEvents == services_events[svc_i + 1].evs

(* Line 209. *)
SortEventsByService ==
    /\ pc = "call"
    /\ services_events' = sort_events_by_service(events, now)
    /\ pc' = "loop"
    /\ UNCHANGED <<cfg, now, ticks, events, svc_i, det, all_alerts, result>>

(* Line 213, the call, up to the first loop head. *)
DetectCall ==
    /\ pc = "loop" /\ svc_i < Len(services_events)
    /\ det' = DetectEntry(CurrentEvents)
    /\ pc' = "detect"
    /\ UNCHANGED <<cfg, now, ticks, events, services_events, svc_i, all_alerts, result>>

Outer ==
    /\ pc = "detect" /\ det.pc = "outer"
    /\ det' = OuterStep(det, CurrentEvents, cfg)
    /\ UNCHANGED <<cfg, now, ticks, events, pc, services_events, svc_i, all_alerts, result>>

Inner ==
    /\ pc = "detect" /\ det.pc = "inner"
    /\ det' = InnerStep(det, CurrentEvents, cfg)
    /\ UNCHANGED <<cfg, now, ticks, events, pc, services_events, svc_i, all_alerts, result>>

Count ==
    /\ pc = "detect" /\ det.pc = "count"
    /\ det' = CountStep(det, CurrentEvents, cfg)
    /\ UNCHANGED <<cfg, now, ticks, events, pc, services_events, svc_i, all_alerts, result>>

Stale ==
    /\ pc = "detect" /\ det.pc = "stale"
    /\ det' = StaleStep(det, CurrentEvents, cfg, now)
    /\ UNCHANGED <<cfg, now, ticks, events, pc, services_events, svc_i, all_alerts, result>>

Trail ==
    /\ pc = "detect" /\ det.pc = "trail"
    /\ det' = TrailStep(det, cfg, now)
    /\ UNCHANGED <<cfg, now, ticks, events, pc, services_events, svc_i, all_alerts, result>>

(* Line 202 and lines 215-219. *)
DetectReturn ==
    /\ pc = "detect" /\ det.pc = "return"
    /\ all_alerts' = all_alerts
                     \o AlertRecords(services_events[svc_i + 1].name, det.alerts, 1)
    /\ svc_i' = svc_i + 1
    /\ det' = IdleFrame
    /\ pc' = "loop"
    /\ UNCHANGED <<cfg, now, ticks, events, services_events, result>>

(* Lines 221-222. *)
SortAndReturn ==
    /\ pc = "loop" /\ svc_i = Len(services_events)
    /\ result' = SortAlerts(all_alerts)
    /\ pc' = "done"
    /\ UNCHANGED <<cfg, now, ticks, events, services_events, svc_i, det, all_alerts>>

(* The wall clock advances while the call runs.  A tick is taken into *)
(* account where the next step reads the clock (lines 186, 191):      *)
(* elsewhere it changes nothing the call can see before such a step,  *)
(* and the first read (line 88) sees the clock of the call.           *)
ReadsClock == pc = "detect" /\ det.pc \in {"stale", "trail"}

Tick ==
    /\ ReadsClock /\ now < MaxNow /\ ticks < MaxTicks
    /\ now' = now + 1
    /\ ticks' = ticks + 1
    /\ UNCHANGED <<cfg, events, pc, services_events, svc_i, det, all_alerts, result>>

Step ==
    \/ SortEventsByService
    \/ DetectCall
    \/ Outer
    \/ Inner
    \/ Count
    \/ Stale
    \/ Trail
    \/ DetectReturn
    \/ SortAndReturn

Next == Wait \/ CallAny \/ Step \/ Tick

Spec == Init /\ [][Next]_vars

(* Calls on the chronological duplicate-free timeline of one service;  *)
(* a call is not suspended for ever: some step of it is always taken.  *)
NextTimeline == Wait \/ CallTimeline \/ Step \/ Tick

FairSpec == Init /\ [][NextTimeline]_vars /\ WF_vars(Step)


---------------------------------------------------------------------------
(* Vocabulary of the properties *)

Done == pc = "done"

(* detect_missed_heartbeats is about to return det.alerts. *)
Returned == pc = "detect" /\ det.pc = "return"

Times(evs) == [i \in 1..Len(evs) |-> Instant(evs[i])]
CurrentTimes == Times(CurrentEvents)
LastOf(tl) == tl[Len(tl)]

Interval == IntervalTicks(cfg)

(* The clock read of line 186 found the last event stale. *)
FoundStale == det.time_since_last >= Interval * cfg.gap_limit

(* Instants exactly one interval apart. *)
OnTime(tl) == \A i \in 1..(Len(tl) - 1) : tl[i + 1] - tl[i] = Interval

(* On time except for the gap after event j, in which k slots are missed. *)
OneGapAt(tl, j, k) ==
    /\ j \in 1..(Len(tl) - 1)
    /\ tl[j + 1] - tl[j] = (k + 1) * Interval
    /\ \A i \in 1..(Len(tl) - 1) : i # j => tl[i + 1] - tl[i] = Interval

GapSizes == cfg.allowed_misses..(2 * cfg.allowed_misses - 1)

AlertsOf(alerts, name) == {i \in DOMAIN alerts : alerts[i].service = name}

---------------------------------------------------------------------------
(* C1 (as amended): for a timeline whose instants are exactly one interval *)
(* apart, detect_missed_heartbeats returns no alert at or before the       *)
(* timeline's last instant; when the clock read finds the last event stale *)
(* it returns no alert at all, except that a timeline of a single event    *)
(* with allowed_misses = 1 returns the one alert of C3, one interval after *)
(* the event.                                                              *)
C1_OnTimeNoAlertUpToLast ==
    (Returned /\ OnTime(CurrentTimes)) =>
        /\ \A i \in DOMAIN det.alerts : det.alerts[i] > LastOf(CurrentTimes)
        /\ FoundStale =>
              det.alerts = IF Len(CurrentTimes) = 1 /\ cfg.allowed_misses = 1
                           THEN <<CurrentTimes[1] + Interval>>
                           ELSE <<>>

C1_Witness ==
    /\ Returned /\ OnTime(CurrentTimes) /\ Len(CurrentTimes) >= 3
    /\ FoundStale /\ det.alerts = <<>>

(* C1 as stated: an on-time timeline gives no alert, whatever the time. *)
C1_OnTimeNoAlertEver ==
    (Returned /\ OnTime(CurrentTimes)) => det.alerts = <<>>

(* C2 (as amended): with tolerance below 1.0, a timeline that is on time   *)
(* except for one gap of k missed slots, allowed_misses <= k <             *)
(* 2 * allowed_misses, gives exactly one alert at or before its last       *)
(* instant, at the allowed_misses-th missed slot, and no other alert when  *)
(* the clock read finds the last event stale; the returned list holds that *)
(* alert under the service's name.                                         *)
C2_OneGapOneAlert ==
    /\ Returned =>
        \A j \in 1..Len(CurrentTimes), k \in GapSizes :
            (OneGapAt(CurrentTimes, j, k) /\ cfg.tolerance < TolDen) =>
                /\ Cardinality({i \in DOMAIN det.alerts :
                                  det.alerts[i] <= LastOf(CurrentTimes)}) = 1
                /\ det.alerts[1] = CurrentTimes[j] + cfg.allowed_misses * Interval
                /\ FoundStale => Len(det.alerts) = 1
    /\ Done =>
        \A s \in DOMAIN services_events :
            LET tl == Times(services_events[s].evs) IN
            \A j \in 1..Len(tl), k \in GapSizes :
                (OneGapAt(tl, j, k) /\ cfg.tolerance < TolDen) =>
                    Cardinality({i \in AlertsOf(result, services_events[s].name) :
                        result[i].alert_at <= FormatAlertTime(LastOf(tl))}) = 1

C2_Witness ==
    /\ Done /\ Len(services_events) = 1 /\ Len(result) = 1
    /\ result[1].service = services_events[1].name
    /\ \E j \in 1..Len(events), k \in GapSizes :
          /\ OneGapAt(Times(services_events[1].evs), j, k)
          /\ k > cfg.allowed_misses /\ cfg.tolerance < TolDen

(* C2 as stated: exactly one alert, whatever the time. *)
C2_OneGapExactlyOne ==
    Returned =>
        \A j \in 1..Len(CurrentTimes), k \in GapSizes :
            (OneGapAt(CurrentTimes, j, k) /\ cfg.tolerance < TolDen) =>
                Len(det.alerts) = 1


---------------------------------------------------------------------------
(* A record is malformed when it is no dict, lacks a key, has a service *)
(* that is not text, blank or too long, or a timestamp that does not    *)
(* parse.                                                               *)
Malformed(e) ==
    \/ ~ e.isdict
    \/ "service" \notin e.keys \/ "timestamp" \notin e.keys
    \/ ~ e.service.str \/ e.service.len = 0 \/ e.service.len > MaxServiceLen
    \/ ~ parse_timestamp(e.timestamp).ok

WellFormedAt(evs) == {i \in DOMAIN evs : ~ Malformed(evs[i])}

(* Every clock read of the call returned the same value, now. *)
ClockStood == ticks = 0

(* C3: monitor_heartbeats returns an empty list for an empty input and *)
(* for an input whose only valid record is a single event.             *)
C3_EmptyOrSingleNoAlert ==
    (Done /\ Cardinality(WellFormedAt(events)) <= 1) => result = <<>>

(* C4: every call terminates: the outer loop, the inner scan and the *)
(* projection loop all finish, however large the gaps.               *)
C4_Terminates == (pc = "call") ~> Done

C4_Witness ==
    /\ Done
    /\ \E s \in DOMAIN services_events :
          LET tl == Times(services_events[s].evs) IN
          \E i \in 1..(Len(tl) - 1) : tl[i + 1] - tl[i] >= 4 * Interval

(* C5: the returned list is sorted ascending by alert_at. *)
C5_SortedByAlertAt ==
    Done => \A i, j \in DOMAIN result :
                i < j => result[i].alert_at <= result[j].alert_at

C5_Witness ==
    /\ Done /\ Len(result) >= 2 /\ result # all_alerts
    /\ result[1].service # result[2].service

(* The order of service names (Python compares the texts). *)
NameRank(name) ==
    CASE name = "a" -> 1 [] name = "b" -> 2 [] name = "c" -> 3 [] OTHER -> 4

Reorderings(s) ==
    {[i \in 1..Len(s) |-> s[p[i]]] : p \in Permutations(1..Len(s))}

(* C6: alerts of different services with the same alert_at come in the *)
(* order of the service names, so the returned list does not depend on *)
(* the order of the input records.                                     *)
C6_TiesByServiceName ==
    /\ Done => \A i, j \in DOMAIN result :
                  (i < j /\ result[i].alert_at = result[j].alert_at
                         /\ result[i].service # result[j].service)
                      => NameRank(result[i].service) < NameRank(result[j].service)
    /\ (Done /\ ClockStood) =>
          \A r \in Reorderings(events) : monitor_heartbeats(r, cfg, now) = result

(* C7: no alert of a service is earlier than the service's first event, *)
(* neither as an instant in the list detect_missed_heartbeats builds    *)
(* nor as the second its text names in the returned list.               *)
C7_NotBeforeFirstEvent ==
    /\ pc = "detect" =>
          \A i \in DOMAIN det.alerts : det.alerts[i] >= CurrentTimes[1]
    /\ Done =>
          \A i \in DOMAIN result, s \in DOMAIN services_events :
              services_events[s].name = result[i].service =>
                  result[i].alert_at * TicksPerSec
                      >= Times(services_events[s].evs)[1]

C7_Witness ==
    /\ Done /\ Len(result) >= 2
    /\ Times(services_events[1].evs)[1] % TicksPerSec # 0

(* C8: consecutive_misses stays within 0..allowed_misses-1; an alert is  *)
(* appended exactly by the increment that would take the counter from    *)
(* allowed_misses-1 to allowed_misses, at the current expected slot; the *)
(* counter is 0 right after an alert and right after a match.            *)
C8_CounterStep ==
    (pc = "detect" /\ pc' = "detect") =>
        LET increment == \/ det.pc = "count" /\ ~ det.found_heartbeat
                         \/ det.pc = "trail" /\ det'.pc = "trail" /\ det' # det
            alerted == det'.alerts = Append(det.alerts, det'.current_expected)
            matched == det.pc = "inner" /\ det'.found_heartbeat
        IN  /\ alerted \/ det'.alerts = det.alerts
            /\ alerted <=> (increment
                            /\ det.consecutive_misses = cfg.allowed_misses - 1)
            /\ alerted => det'.consecutive_misses = 0
            /\ matched => det'.consecutive_misses = 0
            /\ (increment /\ ~ alerted)
                 => det'.consecutive_misses = det.consecutive_misses + 1

C8_MissCounter ==
    /\ [](pc = "detect" => det.consecutive_misses \in 0..(cfg.allowed_misses - 1))
    /\ [][C8_CounterStep]_vars

C8_Witness ==
    /\ pc = "detect" /\ det.pc = "trail" /\ cfg.allowed_misses >= 2
    /\ Len(det.alerts) >= 2 /\ det.consecutive_misses = 0
    /\ det.alerts[1] <= LastOf(CurrentTimes)
    /\ det.alerts[2] > LastOf(CurrentTimes)

(* The inputs made from evs by adding one record that repeats the service *)
(* and instant of a valid record of evs, at any place.                    *)
InsertAt(evs, p, r) == SubSeq(evs, 1, p) \o <<r>> \o SubSeq(evs, p + 1, Len(evs))

Repeats(r, e) ==
    /\ ~ Malformed(r) /\ ~ Malformed(e)
    /\ r.service.core = e.service.core /\ Instant(r) = Instant(e)

WithDuplicate(evs, n) ==
    {InsertAt(evs, p, r) :
        p \in 0..Len(evs),
        r \in {x \in ValidRaw :
                 \E i \in DOMAIN evs : validate_event(evs[i], n) /\ Repeats(x, evs[i])}}

(* C9: adding records that repeat the service and instant of a valid *)
(* record never changes the returned list.                           *)
C9_DuplicatesChangeNothing ==
    (Done /\ ClockStood) =>
        \A d \in WithDuplicate(events, now) : monitor_heartbeats(d, cfg, now) = result

RECURSIVE WithoutMalformed(_)
WithoutMalformed(evs) ==
    IF evs = <<>> THEN <<>>
    ELSE (IF Malformed(Head(evs)) THEN <<>> ELSE <<Head(evs)>>)
         \o WithoutMalformed(Tail(evs))

(* C10: malformed records change nothing, and an input of malformed    *)
(* records plus at most one valid event per service gives no alert.    *)
C10_MalformedIgnored ==
    /\ (Done /\ ClockStood) =>
          result = monitor_heartbeats(WithoutMalformed(events), cfg, now)
    /\ (Done /\ \A i, j \in WellFormedAt(events) :
                    events[i].service.core = events[j].service.core => i = j)
          => result = <<>>

---------------------------------------------------------------------------
(* sort_events_by_service has just returned the mapping (line 209); the *)
(* clock still shows the time of the call.                              *)
Grouped == pc = "loop" /\ svc_i = 0

(* The records of a mapping, service after service. *)
RECURSIVE Flatten(_, _)
Flatten(services, i) ==
    IF i > Len(services) THEN <<>>
    ELSE services[i].evs \o Flatten(services, i + 1)

(* C11: sort_events_by_service applied to the records of its own result *)
(* returns the same mapping, at the same or any later time.             *)
C11_GroupingIdempotent ==
    Grouped =>
        \A n \in now..MaxNow :
            sort_events_by_service(Flatten(services_events, 1), n) = services_events

C11_Witness ==
    /\ Grouped /\ Len(events) = 2 /\ ClockStood
    /\ \A i \in DOMAIN events : validate_event(events[i], now)
    /\ Len(Flatten(services_events, 1)) = 1

(* The places of the input that hold a valid record of the service. *)
ValidOf(name) ==
    {k \in DOMAIN events :
        validate_event(events[k], now) /\ events[k].service.core = name}

Least(S) == CHOOSE k \in S : \A m \in S : k <= m

(* C13: every timeline of the mapping is strictly increasing and holds, *)
(* for each instant of the valid records of its service, the first of   *)
(* these records in the input, and nothing else.                        *)
C13_OnePerInstantFirstKept ==
    (Grouped /\ ClockStood) =>
        /\ {services_events[s].name : s \in DOMAIN services_events}
              = {events[k].service.core :
                    k \in {m \in DOMAIN events : validate_event(events[m], now)}}
        /\ \A s \in DOMAIN services_events :
              LET name == services_events[s].name
                  evs == services_events[s].evs
                  tl == Times(evs)
              IN  /\ \A i \in 1..(Len(tl) - 1) : tl[i] < tl[i + 1]
                  /\ {tl[i] : i \in DOMAIN tl}
                        = {Instant(events[k]) : k \in ValidOf(name)}
                  /\ \A i \in DOMAIN evs :
                        evs[i] = events[Least({k \in ValidOf(name) :
                                                 Instant(events[k]) = tl[i]})]

C13_Witness ==
    /\ Grouped /\ ClockStood /\ Len(events) = 2 /\ events[1] # events[2]
    /\ \A i \in DOMAIN events : validate_event(events[i], now)
    /\ events[1].service.core = events[2].service.core
    /\ Instant(events[1]) = Instant(events[2])
    /\ Len(services_events) = 1 /\ services_events[1].evs = <<events[1]>>

---------------------------------------------------------------------------
(* HeartbeatMonitor.__init__ (lines 13-36).  The arguments are integers, *)
(* tolerance a number of TolDen-ths.  A call either raises ValueError,   *)
(* and no object exists, or returns the object holding the arguments.    *)

NoMonitor ==
    [interval_seconds |-> 0, allowed_misses |-> 0, tolerance |-> 0,
     future_limit |-> 0, gap_limit |-> 0]

ValueError == [raised |-> TRUE, self |-> NoMonitor]

HeartbeatMonitorNoUpperBound(args) ==
    IF args.interval_seconds <= 0 THEN ValueError
    ELSE IF args.interval_seconds > MaxIntervalSeconds THEN ValueError
    ELSE IF args.allowed_misses <= 0 THEN ValueError
    ELSE IF ~ (0 <= args.tolerance /\ args.tolerance <= TolDen) THEN ValueError
    ELSE IF args.future_limit < 0 THEN ValueError
    ELSE IF args.gap_limit <= 0 THEN ValueError
    ELSE [raised |-> FALSE, self |-> args]

HeartbeatMonitor(args) ==
    IF args.interval_seconds <= 0 THEN ValueError
    ELSE IF args.interval_seconds > MaxIntervalSeconds THEN ValueError
    ELSE IF args.allowed_misses <= 0 THEN ValueError
    ELSE IF args.allowed_misses > MaxAllowedMisses THEN ValueError
    ELSE IF ~ (0 <= args.tolerance /\ args.tolerance <= TolDen) THEN ValueError
    ELSE IF args.future_limit < 0 THEN ValueError
    ELSE IF args.gap_limit <= 0 THEN ValueError
    ELSE [raised |-> FALSE, self |-> args]

(* Arguments on both sides of every limit. *)
ConstructorArgs ==
    [interval_seconds : {-1, 0, 1, MaxIntervalSeconds, MaxIntervalSeconds + 1},
     allowed_misses : {-1, 0, 1, MaxAllowedMisses, MaxAllowedMisses + 1},
     tolerance : {-1, 0, TolDen, TolDen + 1},
     future_limit : {-1, 0, DefaultFutureLimit},
     gap_limit : {-1, 0, 1, 3}]

InitNew ==
    /\ cfg = NoMonitor
    /\ now = 0
    /\ ticks = 0
    /\ events = <<>>
    /\ pc = "new"
    /\ services_events = <<>>
    /\ svc_i = 0
    /\ det = IdleFrame
    /\ all_alerts = <<>>
    /\ result = <<>>

Construct(args) ==
    /\ pc = "new"
    /\ LET made == HeartbeatMonitor(args) IN
        IF made.raised
        THEN pc' = "ValueError" /\ cfg' = cfg
        ELSE pc' = "idle" /\ cfg' = made.self
    /\ UNCHANGED <<now, ticks, events, services_events, svc_i, det, all_alerts, result>>

ConstructAny == \E args \in ConstructorArgs : Construct(args)

(* Short timelines, for the calls on a monitor that was constructed. *)
ShortTimelines == {s \in Timelines : s[Len(s)] <= 2}

CallShort == \E s \in ShortTimelines : Call(TimelineEvents(s))

NextConstructed == ConstructAny \/ Wait \/ CallShort \/ Step \/ Tick

ConstructedSpec == InitNew /\ [][NextConstructed]_vars

(* The ranges of the parameters. *)
InRange(args) ==
    /\ args.interval_seconds \in 1..MaxIntervalSeconds
    /\ args.allowed_misses \in 1..MaxAllowedMisses
    /\ 0 <= args.tolerance /\ args.tolerance <= TolDen
    /\ args.future_limit >= 0
    /\ args.gap_limit >= 1

(* C12: the constructor raises ValueError, and makes no object, exactly *)
(* when some argument is out of range; otherwise the object holds the   *)
(* arguments; no call of monitor_heartbeats has a configuration out of  *)
(* range.                                                               *)
C12_ConstructorValidates ==
    /\ pc = "new" =>
          \A args \in ConstructorArgs :
              LET made == HeartbeatMonitor(args) IN
              /\ made.raised <=> ~ InRange(args)
              /\ made.raised => made.self = NoMonitor
              /\ ~ made.raised => made.self = args
    /\ pc = "ValueError" => cfg = NoMonitor
    /\ pc \notin {"new", "ValueError"} => InRange(cfg)

C12_Witness == pc = "ValueError" /\ cfg = NoMonitor

---------------------------------------------------------------------------
StaleLimit == Interval * cfg.gap_limit

(* The values of the clock at which the last event of tl is stale. *)
StaleNows(tl) == {n \in 0..(MaxNow + 1) : n - LastOf(tl) >= StaleLimit}

(* The step of lines 184-188 has read the clock. *)
StaleRead == pc = "detect" /\ det.pc = "stale" /\ det'.pc # "stale"

C14_StaleStep ==
    (StaleRead /\ now - LastOf(CurrentTimes) >= StaleLimit) =>
        (det'.pc = "return" /\ det'.alerts = det.alerts)

(* C14: when the clock read finds the last event stale, the call returns *)
(* the alerts of the main loop without projecting, and these are the     *)
(* alerts of every call that finds the last event stale.                 *)
C14_StaleNoProjection ==
    /\ []((Returned /\ FoundStale) =>
            \A n \in StaleNows(CurrentTimes) :
                detect_missed_heartbeats(CurrentEvents, cfg, n) = det.alerts)
    /\ [][C14_StaleStep]_vars

C14_Witness ==
    /\ Returned /\ FoundStale /\ Len(det.alerts) >= 1 /\ Len(CurrentTimes) >= 2
    /\ \E n \in LastOf(CurrentTimes)..MaxNow :
          detect_missed_heartbeats(CurrentEvents, cfg, n) # det.alerts

(* The value the clock had at the read of line 186. *)
ClockAtStale == LastOf(CurrentTimes) + det.time_since_last

(* C15: the alerts of a call are those of the single clock value read at *)
(* the start of the trailing step, whatever the clock does afterwards.   *)
C15_ClockReadOnce ==
    Returned =>
        det.alerts = detect_missed_heartbeats(CurrentEvents, cfg, ClockAtStale)

(* One iteration of the projection loop has run. *)
TrailRead == pc = "detect" /\ det.pc = "trail" /\ det' # det

C16_TrailingStep ==
    /\ StaleRead =>
          (det'.pc = "trail" <=> now - LastOf(CurrentTimes) < StaleLimit)
    /\ TrailRead =>
          LET slot == det.current_expected + Interval
              passed == (now - slot) * TolDen > Interval * cfg.tolerance
              reached == det.consecutive_misses + 1 = cfg.allowed_misses
          IN  /\ passed =>
                    /\ det'.pc = "trail" /\ det'.current_expected = slot
                    /\ reached => /\ det'.alerts = Append(det.alerts, slot)
                                   /\ det'.consecutive_misses = 0
                    /\ ~ reached => /\ det'.alerts = det.alerts
                                     /\ det'.consecutive_misses
                                            = det.consecutive_misses + 1
              /\ ~ passed => (det'.pc = "return" /\ det'.alerts = det.alerts)
              /\ det'.alerts # det.alerts =>
                    slot * TolDen < now * TolDen - Interval * cfg.tolerance

(* C16: the trailing phase is entered when the last event is recent; it *)
(* projects slot after slot, one interval apart, counts a miss for each *)
(* slot more than the tolerance before the clock, alerts and resets at  *)
(* the threshold, and stops at the first slot that is not.              *)
C16_TrailingProjection == [][C16_TrailingStep]_vars

C16_Witness ==
    /\ pc = "detect" /\ det.pc = "trail" /\ Len(det.alerts) >= 2
    /\ det.alerts[Len(det.alerts)] = det.current_expected
    /\ det.alerts[Len(det.alerts) - 1] > LastOf(CurrentTimes)
    /\ cfg.allowed_misses >= 2

(* Every gap between consecutive events of tl is one interval, give or *)
(* take the tolerance.                                                 *)
WithinDrift(tl) ==
    \A i \in 1..(Len(tl) - 1) :
        Abs((tl[i + 1] - tl[i]) - Interval) * TolDen <= Interval * cfg.tolerance

(* The call is in the loop over the recorded events (lines 146-184). *)
MainLoop == pc = "detect" /\ det.pc \in {"outer", "inner", "count", "stale"}

(* C17: over a timeline whose gaps are all within the tolerance of the *)
(* interval, the main loop counts no miss and emits no alert.          *)
C17_DriftNoMiss ==
    (MainLoop /\ WithinDrift(CurrentTimes)) =>
        (det.alerts = <<>> /\ det.consecutive_misses = 0)

(* The head of the outer loop has run (lines 146-160). *)
OuterRun == pc = "detect" /\ det.pc = "outer" /\ det' # det

C18_OuterStep ==
    OuterRun =>
        /\ det'.pc \in {"inner", "return"}
        /\ det'.pc = "inner" =>
              /\ det'.current_expected = det.current_expected + Interval
              /\ det'.event_index = det.event_index
              /\ det'.consecutive_misses = det.consecutive_misses

(* C18: the head of the outer loop never jumps to the next event; it *)
(* either ends the loop or moves the expected clock by one interval, *)
(* however far ahead the next event is.                              *)
C18_NoResync == [](cfg.gap_limit >= 1) /\ [][C18_OuterStep]_vars

C18_Witness ==
    /\ pc = "detect" /\ det.pc = "inner" /\ cfg.gap_limit = 3
    /\ det.event_index < Len(CurrentTimes)
    /\ CurrentTimes[det.event_index + 1] - (det.current_expected - Interval)
          > StaleLimit

(* Values a monitor may be given as future_limit. *)
FutureLimits == {0, DefaultFutureLimit, 2 * DefaultFutureLimit}

(* The record's instant is at most 24 hours after the clock value n. *)
Within24Hours(e, n) == Instant(e) <= n + FutureHours * 3600 * TicksPerSec

(* C19: a well-formed record is accepted exactly when its instant is at *)
(* most 24 hours after the clock, and a monitor that differs only in    *)
(* future_limit groups the same records and returns the same alerts.    *)
C19_FutureLimitUnused ==
    /\ Grouped =>
          \A i \in DOMAIN events : \A n \in 0..MaxNow :
              validate_event(events[i], n)
                  <=> (~ Malformed(events[i]) /\ Within24Hours(events[i], n))
    /\ (Done /\ ClockStood) =>
          /\ {services_events[s].name : s \in DOMAIN services_events}
                = {events[i].service.core :
                      i \in {k \in WellFormedAt(events) :
                                Within24Hours(events[k], now)}}
          /\ \A fl \in FutureLimits :
                monitor_heartbeats(events, [cfg EXCEPT !.future_limit = fl], now)
                    = result

C19_Witness ==
    /\ Done /\ ClockStood /\ Len(services_events) = 2
    /\ \E i \in DOMAIN events :
          /\ Instant(events[i]) > now + 2 * DefaultFutureLimit * TicksPerSec
          /\ \E s \in DOMAIN services_events :
                services_events[s].evs = <<events[i]>>

(* The gaps of tl that are longer than allowed_misses + 1 intervals. *)
LongSilences(tl) ==
    {i \in 1..(Len(tl) - 1) :
        tl[i + 1] - tl[i] > (cfg.allowed_misses + 1) * Interval}

(* C20: when two consecutive events of a timeline are more than      *)
(* allowed_misses + 1 intervals apart, the call returns an alert at  *)
(* an instant strictly between them.                                 *)
C20_LongSilenceAlerted ==
    Returned =>
        \A i \in LongSilences(CurrentTimes) :
            \E j \in DOMAIN det.alerts :
                /\ CurrentTimes[i] < det.alerts[j]
                /\ det.alerts[j] < CurrentTimes[i + 1]

C20_Witness ==
    /\ Returned /\ cfg.allowed_misses = MaxMisses /\ cfg.tolerance > 0
    /\ LongSilences(CurrentTimes) # {}
    /\ Len(det.alerts) = 1

(* C21: the alert instants of one call are strictly increasing, and two *)
(* consecutive ones are at least allowed_misses intervals apart.        *)
C21_AlertsSpaced ==
    pc = "detect" =>
        \A j \in 1..(Len(det.alerts) - 1) :
            /\ det.alerts[j] < det.alerts[j + 1]
            /\ det.alerts[j + 1] - det.alerts[j] >= cfg.allowed_misses * Interval

(* A main-loop alert, a match, and then a trailing alert. *)
C21_Witness ==
    /\ Returned /\ cfg.allowed_misses = MaxMisses /\ Len(det.alerts) = 2
    /\ det.alerts[1] < LastOf(CurrentTimes)
    /\ det.alerts[2] = LastOf(CurrentTimes) + cfg.allowed_misses * Interval

(* Every event of tl has happened by the clock value n. *)
AllHappened(tl, n) == \A i \in DOMAIN tl : tl[i] <= n

(* C22: when every event of the timeline is at or before the clock, no *)
(* alert of the call has an instant later than the clock.              *)
C22_NoFutureAlert ==
    (Returned /\ AllHappened(CurrentTimes, now)) =>
        \A j \in DOMAIN det.alerts : det.alerts[j] <= now

(* The gaps of tl are at most one interval plus the tolerance. *)
NeverLate(tl) ==
    \A i \in 1..(Len(tl) - 1) :
        (tl[i + 1] - tl[i] - Interval) * TolDen <= Interval * cfg.tolerance

(* C23: over a timeline whose gaps are at most one interval plus the *)
(* tolerance, the main loop emits no alert.                          *)
C23_EarlyNeverMisses ==
    (MainLoop /\ NeverLate(CurrentTimes)) => det.alerts = <<>>

IsPrefix(a, b) == Len(a) <= Len(b) /\ SubSeq(b, 1, Len(a)) = a

(* The values of the clock, from now on, at which the last event of tl *)
(* is still recent.                                                    *)
RecentNows(tl) == {n \in now..(MaxNow + 1) : n - LastOf(tl) < StaleLimit}

(* C24: a call at a later time that still finds the last event recent  *)
(* returns the alerts of this call followed by further trailing alerts; *)
(* a call that finds it stale returns the main-loop alerts only, which  *)
(* every call returns first.                                            *)
C24_AlertsKeptWhileRecent ==
    Returned =>
        /\ \A n \in RecentNows(CurrentTimes) :
              IsPrefix(det.alerts, detect_missed_heartbeats(CurrentEvents, cfg, n))
        /\ \A n \in StaleNows(CurrentTimes) :
              IsPrefix(detect_missed_heartbeats(CurrentEvents, cfg, n), det.alerts)

C24_Witness ==
    /\ Returned /\ ~ FoundStale /\ Len(det.alerts) >= 1
    /\ \E n \in RecentNows(CurrentTimes) :
          Len(detect_missed_heartbeats(CurrentEvents, cfg, n)) > Len(det.alerts)
    /\ \E n \in StaleNows(CurrentTimes) :
          Len(detect_missed_heartbeats(CurrentEvents, cfg, n)) < Len(det.alerts)

(* C24 as stated: every alert of this call is an alert of every call at *)
(* a later time.                                                        *)
C24_AlertsStable ==
    Returned =>
        \A n \in now..(MaxNow + 1) :
            \A j \in DOMAIN det.alerts :
                \E k \in DOMAIN detect_missed_heartbeats(CurrentEvents, cfg, n) :
                    detect_missed_heartbeats(CurrentEvents, cfg, n)[k] = det.alerts[j]

=============================================================================
